---- MODULE Spec2Model ----
(***************************************************************************)
(* A model of the musicnn genre-outlier pipeline:                          *)
(*   musicnn/extractor.py  batch_data (spectrogram patching)               *)
(*   musicod.py            index_dir, album_subdata, album_pickdata,       *)
(*                         album_od                                        *)
(* Probabilities are integers in 0..10 (tenths).  Medians and weights are  *)
(* kept doubled so that numpy's mean-of-the-two-middle-values median stays *)
(* integral; logarithms are in thousandths.                                *)
(***************************************************************************)
EXTENDS Integers, Sequences, FiniteSets, TLC

VARIABLES
    \* batch_data
    audio_rows,      \* audio_rep.shape[0]
    n_frames,        \* patch length
    overlap,         \* step of the range()
    time_stamp,      \* loop variable of batch_data
    first,           \* the `first` flag
    batch,           \* the patches gathered so far (each a sequence of row numbers)
    bpc,             \* "loop", "done", "raised"
    \* index_dir
    walk,            \* the files os.walk yields, in order
    ipos,            \* number of files of the walk already handled
    data,            \* the dictionary index_dir builds
    ipc,             \* "scan", "done", "raised"
    \* album_subdata, album_pickdata, album_od
    lib,             \* lib_data, the library index
    inlier_albums,   \* album names handed to album_subdata
    outlier_albums,  \* album names handed to album_pickdata
    sub,             \* the subset album_subdata returned, then pick_to
    pick_before,     \* pick_to as it was when album_pickdata was called
    spc,             \* "start", "built", "picked"
    run,             \* per value of `weighted`: album_od's locals at its exit
    \* the reweighting step of album_od, on its own
    wV,              \* data_mat
    wPrev,           \* the matrix and results before one value was raised
    wRes,            \* median, weights and contributions for wV
    wpc              \* "fit", "weighted"

batchVars == <<audio_rows, n_frames, overlap, time_stamp, first, batch, bpc>>
indexVars == <<walk, ipos, data, ipc>>
inputVars == <<lib, inlier_albums, outlier_albums>>
selectVars == <<sub, pick_before, spc>>
weightVars == <<wV, wPrev, wRes, wpc>>
vars == <<batchVars, indexVars, inputVars, selectVars, run, weightVars>>

\* ------------------------------------------------------------------ bounds
MaxRows == 8
MaxFrames == 3
MaxOverlap == 4
MaxWalk == 3
MaxAlbums == 2
MaxRecords == 3
MaxProb == 5

\* -------------------------------------------------------- generic helpers
Max(a, b) == IF a >= b THEN a ELSE b

\* Python's None / a value that is not None
None == <<>>
Some(x) == <<x>>
IsNone(o) == o = <<>>

RECURSIVE SumSeq(_)
SumSeq(s) == IF s = <<>> THEN 0 ELSE Head(s) + SumSeq(Tail(s))

\* ------------------------------------------------- musicod.py, lines 12-18
music_extensions ==
    << <<"m", "p", "3">>, <<"w", "a", "v">>,
       <<"f", "l", "a", "c">>, <<"m", "4", "a">> >>

Letters == {"m", "p", "w", "a", "v", "f", "l", "c", "t", "x", "j", "g"}

Upper(c) ==
    CASE c = "m" -> "M" [] c = "p" -> "P" [] c = "w" -> "W" [] c = "a" -> "A"
      [] c = "v" -> "V" [] c = "f" -> "F" [] c = "l" -> "L" [] c = "c" -> "C"
      [] c = "t" -> "T" [] c = "x" -> "X" [] c = "j" -> "J" [] c = "g" -> "G"
      [] OTHER -> c

\* '[%s%s]' % (c.lower(), c.upper()) if c.isalpha() else c
CharClass(c) == IF c \in Letters THEN {c, Upper(c)} ELSE {c}

\* One alternative '(.*\.<classes>)$' of the pattern, applied to a file name
\* given as [stem, ext], ext being the characters after the last dot.
ExtMatches(ext, pat) ==
    /\ Len(ext) = Len(pat)
    /\ \A k \in 1..Len(pat) : ext[k] \in CharClass(pat[k])

\* re.match(music_ext_pattern, filename)
MusicExtMatch(name) ==
    \E e \in 1..Len(music_extensions) : ExtMatches(name.ext, music_extensions[e])

\* --------------------------------------- extractor.py, batch_data 46-58
\* a last_frame without the +1 (the last full patch is lost)
LastFrameExclusive(rows, n) == rows - n

\* last_frame = audio_rep.shape[0] - n_frames + 1
LastFrame(rows, n) == rows - n + 1

\* audio_rep[time_stamp : time_stamp + n_frames, :], as the row numbers taken
Patch(ts, n) == [k \in 1..n |-> ts + k - 1]

BatchInit ==
    /\ audio_rows \in 0..MaxRows
    /\ n_frames \in 1..MaxFrames
    /\ overlap \in 1..MaxOverlap
    /\ time_stamp = 0
    /\ first = TRUE
    /\ batch = <<>>
    /\ bpc = "loop"

\* one iteration of `for time_stamp in range(0, last_frame, overlap)`
BatchStep ==
    /\ bpc = "loop"
    /\ time_stamp < LastFrame(audio_rows, n_frames)
    /\ batch' = Append(batch, Patch(time_stamp, n_frames))
    /\ first' = FALSE
    /\ time_stamp' = time_stamp + overlap
    /\ UNCHANGED <<audio_rows, n_frames, overlap, bpc>>
    /\ UNCHANGED <<indexVars, inputVars, selectVars, run, weightVars>>

\* `return batch, audio_rep`: batch is unbound when the loop never ran
BatchReturn ==
    /\ bpc = "loop"
    /\ time_stamp >= LastFrame(audio_rows, n_frames)
    /\ bpc' = IF first THEN "raised" ELSE "done"
    /\ UNCHANGED <<audio_rows, n_frames, overlap, time_stamp, first, batch>>
    /\ UNCHANGED <<indexVars, inputVars, selectVars, run, weightVars>>

BatchIdle ==
    /\ audio_rows = 0 /\ n_frames = 1 /\ overlap = 1 /\ time_stamp = 0
    /\ first = TRUE /\ batch = <<>> /\ bpc = "idle"

\* ------------------------------------------- musicod.py, tags_vec 21-24
\* The frame length and step extractor() hands to batch_data (input_overlap
\* is False, so overlap = n_frames), scaled down.
InputFrames == 3

AllTags == <<"rock", "piano", "jazz">>

\* The number of patches batch_data returns for a spectrogram of `rows` rows;
\* 0 stands for the unbound `batch` (the function raises).
PatchCount(rows, n, o) ==
    IF LastFrame(rows, n) <= 0 THEN 0 ELSE ((LastFrame(rows, n) - 1) \div o) + 1

\* The tagging network, taken as a collaborator that answers every batch: one
\* row of f.ntags probabilities per patch (the width is whatever the network
\* in use returns for that file).
Taggram(f) ==
    [p \in 1..PatchCount(f.rows, InputFrames, InputFrames) |->
        [j \in 1..f.ntags |-> f.prob]]

\* np.mean(taggram, axis=0).tolist()
MeanAxis0(m, width) ==
    [j \in 1..width |-> SumSeq([p \in 1..Len(m) |-> m[p][j]]) \div Len(m)]

TagsVecRaises(f) == PatchCount(f.rows, InputFrames, InputFrames) = 0

\* tags_vec(file_path): (tags, vec); `id` names the list object returned
tags_vec(f, id) ==
    [tags |-> SubSeq(AllTags, 1, f.ntags),
     vec  |-> [id |-> id, val |-> MeanAxis0(Taggram(f), f.ntags)]]

\* ------------------------------------------- musicod.py, init_data 27-32
init_data(tags) ==
    [tags |-> IF IsNone(tags) \/ tags[1] = <<>> THEN None ELSE Some(tags[1]),
     path |-> <<>>,
     vecs |-> <<>>]

\* ------------------------------------------- musicod.py, index_dir 35-47
FileKinds ==
    [name  : {[stem |-> "s", ext |-> e] :
                 e \in {<<"m", "p", "3">>, <<"F", "l", "a", "C">>, <<"t", "x", "t">>}},
     rows  : {1, 5},
     ntags : {2, 3},
     prob  : {5}]

IndexInit ==
    /\ \E len \in 0..MaxWalk : walk \in [1..len -> FileKinds]
    /\ ipos = 0
    /\ data = init_data(None)
    /\ ipc = "scan"

\* `if not re.match(music_ext_pattern, filename): continue`
IndexSkip ==
    /\ ipc = "scan" /\ ipos < Len(walk)
    /\ ~MusicExtMatch(walk[ipos + 1].name)
    /\ ipos' = ipos + 1
    /\ UNCHANGED <<walk, data, ipc>>
    /\ UNCHANGED <<batchVars, inputVars, selectVars, run, weightVars>>

\* lines 41-46 for a file tags_vec succeeds on
IndexAdd ==
    /\ ipc = "scan" /\ ipos < Len(walk)
    /\ MusicExtMatch(walk[ipos + 1].name)
    /\ ~TagsVecRaises(walk[ipos + 1])
    /\ LET tv == tags_vec(walk[ipos + 1], ipos + 1) IN
         data' = [tags |-> IF IsNone(data.tags) THEN Some(tv.tags) ELSE data.tags,
                  path |-> Append(data.path, ipos + 1),
                  vecs |-> Append(data.vecs, tv.vec)]
    /\ ipos' = ipos + 1
    /\ UNCHANGED <<walk, ipc>>
    /\ UNCHANGED <<batchVars, inputVars, selectVars, run, weightVars>>

\* tags_vec raises (batch_data returns its unbound `batch`); index_dir has no
\* handler, so the exception leaves index_dir and no index is returned
IndexRaise ==
    /\ ipc = "scan" /\ ipos < Len(walk)
    /\ MusicExtMatch(walk[ipos + 1].name)
    /\ TagsVecRaises(walk[ipos + 1])
    /\ ipc' = "raised"
    /\ UNCHANGED <<walk, ipos, data>>
    /\ UNCHANGED <<batchVars, inputVars, selectVars, run, weightVars>>

\* `return data`
IndexReturn ==
    /\ ipc = "scan" /\ ipos = Len(walk)
    /\ ipc' = "done"
    /\ UNCHANGED <<walk, ipos, data>>
    /\ UNCHANGED <<batchVars, inputVars, selectVars, run, weightVars>>

IndexIdle ==
    /\ walk = <<>> /\ ipos = 0 /\ ipc = "idle"
    /\ data = init_data(None)

\* --------------------------------------------- the library on disk
\* What os.walk(os.path.join(lib_dir, name)) yields for each album name: the
\* directories top-down, each with its file names.  "C" is no directory.
Nm(stem, ext) == [stem |-> stem, ext |-> ext]

Library ==
    [g \in {"A", "B", "C"} |->
        CASE g = "A" ->
               << [subpath |-> "A",
                   files |-> << Nm("a1", <<"m", "p", "3">>),
                                Nm("notes", <<"t", "x", "t">>),
                                Nm("a2", <<"F", "L", "A", "C">>) >>],
                  [subpath |-> "A/cd2",
                   files |-> << Nm("a3", <<"w", "a", "v">>),
                                Nm("a4", <<"m", "4", "A">>) >>] >>
          [] g = "B" ->
               << [subpath |-> "B",
                   files |-> << Nm("cover", <<"j", "p", "g">>),
                                Nm("b1", <<"M", "p", "3">>),
                                Nm("b2", <<"m", "p", "3">>) >>],
                  [subpath |-> "B/live",
                   files |-> << Nm("b3", <<"m", "p", "3", "x">>) >>] >>
          [] OTHER -> << >>]

AlbumNames == DOMAIN Library

\* os.path.join(subpath, filename)
JoinPath(subpath, name) == <<subpath, name>>

\* The track vector the tagger gives each audio file (rock, piano).
VecOf(stem) ==
    CASE stem = "a1" -> <<9, 1>> [] stem = "a2" -> <<8, 2>>
      [] stem = "a3" -> <<8, 3>> [] stem = "a4" -> <<7, 2>>
      [] stem = "b1" -> <<1, 9>> [] stem = "b2" -> <<3, 6>>
      [] OTHER -> <<5, 5>>

\* Every audio file of the library, in the order index_dir walks them.
IndexedOrder ==
    << JoinPath("A", Nm("a1", <<"m", "p", "3">>)),
       JoinPath("A", Nm("a2", <<"F", "L", "A", "C">>)),
       JoinPath("A/cd2", Nm("a3", <<"w", "a", "v">>)),
       JoinPath("A/cd2", Nm("a4", <<"m", "4", "A">>)),
       JoinPath("B", Nm("b1", <<"M", "p", "3">>)),
       JoinPath("B", Nm("b2", <<"m", "p", "3">>)) >>

\* Files that may have been added to the disk after the index was built.
MayBeUnindexed == {5, 6}

\* The index index_dir built when the files `missing` were not there yet.
LibraryIndex(missing) ==
    LET kept(k) == k \notin missing
        paths == SelectSeq([k \in 1..Len(IndexedOrder) |-> k], kept)
    IN  [tags |-> Some(SubSeq(AllTags, 1, 2)),
         path |-> [k \in 1..Len(paths) |-> IndexedOrder[paths[k]]],
         vecs |-> [k \in 1..Len(paths) |->
                     [id |-> k, val |-> VecOf(IndexedOrder[paths[k]][2].stem)]]]

\* list.index(x): the first position of x, 0 standing for ValueError
ListIndex(s, x) ==
    IF \E k \in 1..Len(s) : s[k] = x
    THEN CHOOSE k \in 1..Len(s) : s[k] = x /\ \A m \in 1..(k - 1) : s[m] # x
    ELSE 0

\* list.copy() of a vector: a new list object with the same items.  Objects
\* made while filling `into` are numbered below zero, the index's above.
CopyVec(v, into) == [id |-> 0 - (Len(into.vecs) + 1), val |-> v.val]

\* ---------------------------------------- musicod.py, album_subdata 74-90
\* album_subdata's inner loop with album_pickdata's `break` pasted in
RECURSIVE SubFilesBreak(_, _, _, _)
SubFilesBreak(d, lib_data, subpath, files) ==
    IF files = <<>> THEN d
    ELSE LET filename == Head(files)
             file_path == JoinPath(subpath, filename)
             file_index == ListIndex(lib_data.path, file_path)
         IN  IF ~MusicExtMatch(filename)
             THEN SubFilesBreak(d, lib_data, subpath, Tail(files))
             ELSE IF file_index = 0
             THEN SubFilesBreak(d, lib_data, subpath, Tail(files))
             ELSE [d EXCEPT !.path = Append(@, file_path),
                            !.vecs = Append(@, CopyVec(lib_data.vecs[file_index], d))]

\* `for filename in files:` of album_subdata, lines 79-89
RECURSIVE SubFiles(_, _, _, _)
SubFiles(d, lib_data, subpath, files) ==
    IF files = <<>> THEN d
    ELSE LET filename == Head(files)
             file_path == JoinPath(subpath, filename)
             file_index == ListIndex(lib_data.path, file_path)
         IN  IF ~MusicExtMatch(filename)
             THEN SubFiles(d, lib_data, subpath, Tail(files))
             ELSE IF file_index = 0
             THEN SubFiles(d, lib_data, subpath, Tail(files))
             ELSE SubFiles(
                    [d EXCEPT !.path = Append(@, file_path),
                              !.vecs = Append(@, CopyVec(lib_data.vecs[file_index], d))],
                    lib_data, subpath, Tail(files))

\* `for subpath, _, files in os.walk(album_path):`, line 78
RECURSIVE SubDirs(_, _, _)
SubDirs(d, lib_data, dirs) ==
    IF dirs = <<>> THEN d
    ELSE SubDirs(SubFiles(d, lib_data, Head(dirs).subpath, Head(dirs).files),
                 lib_data, Tail(dirs))

\* `for name in album_names:`, line 76
RECURSIVE SubAlbums(_, _, _)
SubAlbums(d, lib_data, album_names) ==
    IF album_names = <<>> THEN d
    ELSE SubAlbums(SubDirs(d, lib_data, Library[Head(album_names)]),
                   lib_data, Tail(album_names))

album_subdata(lib_data, album_names) ==
    SubAlbums(init_data(lib_data.tags), lib_data, album_names)

\* --------------------------------------- musicod.py, album_pickdata 93-109
\* album_pickdata's inner loop without its `break`
RECURSIVE PickFilesNoBreak(_, _, _, _)
PickFilesNoBreak(pick_to, lib_data, subpath, files) ==
    IF files = <<>> THEN pick_to
    ELSE LET filename == Head(files)
             file_path == JoinPath(subpath, filename)
             file_index == ListIndex(lib_data.path, file_path)
         IN  IF ~MusicExtMatch(filename)
             THEN PickFilesNoBreak(pick_to, lib_data, subpath, Tail(files))
             ELSE IF file_index = 0
             THEN PickFilesNoBreak(pick_to, lib_data, subpath, Tail(files))
             ELSE PickFilesNoBreak(
                    [pick_to EXCEPT
                        !.path = Append(@, file_path),
                        !.vecs = Append(@, CopyVec(lib_data.vecs[file_index], pick_to))],
                    lib_data, subpath, Tail(files))

\* `for filename in files:` of album_pickdata, lines 97-108
RECURSIVE PickFiles(_, _, _, _)
PickFiles(pick_to, lib_data, subpath, files) ==
    IF files = <<>> THEN pick_to
    ELSE LET filename == Head(files)
             file_path == JoinPath(subpath, filename)
             file_index == ListIndex(lib_data.path, file_path)
         IN  IF ~MusicExtMatch(filename)
             THEN PickFiles(pick_to, lib_data, subpath, Tail(files))
             ELSE IF file_index = 0
             THEN PickFiles(pick_to, lib_data, subpath, Tail(files))
             ELSE \* append, then `break`
                  [pick_to EXCEPT
                      !.path = Append(@, file_path),
                      !.vecs = Append(@, CopyVec(lib_data.vecs[file_index], pick_to))]

RECURSIVE PickDirs(_, _, _)
PickDirs(pick_to, lib_data, dirs) ==
    IF dirs = <<>> THEN pick_to
    ELSE PickDirs(PickFiles(pick_to, lib_data, Head(dirs).subpath, Head(dirs).files),
                  lib_data, Tail(dirs))

RECURSIVE album_pickdata(_, _, _)
album_pickdata(pick_to, lib_data, album_names) ==
    IF album_names = <<>> THEN pick_to
    ELSE album_pickdata(PickDirs(pick_to, lib_data, Library[Head(album_names)]),
                        lib_data, Tail(album_names))

\* ------------------------------------------------ numpy on small matrices
RECURSIVE InsertAsc(_, _)
InsertAsc(s, x) ==
    IF s = <<>> THEN <<x>>
    ELSE IF x < Head(s) THEN <<x>> \o s
    ELSE <<Head(s)>> \o InsertAsc(Tail(s), x)

RECURSIVE SortAsc(_)
SortAsc(s) == IF s = <<>> THEN <<>> ELSE InsertAsc(SortAsc(Tail(s)), Head(s))

Column(m, j) == [i \in 1..Len(m) |-> m[i][j]]

Width(m) == IF m = <<>> THEN 0 ELSE Len(m[1])

\* np.median of one column, doubled
Median2(col) ==
    LET s == SortAsc(col)
        n == Len(col)
    IN  IF n % 2 = 1 THEN 2 * s[(n + 1) \div 2]
        ELSE s[n \div 2] + s[(n \div 2) + 1]

\* median_likelihood = np.median(data_mat, axis=0), doubled  (line 128)
MedianAxis0(m) == [j \in 1..Width(m) |-> Median2(Column(m, j))]

\* a weight that is the median alone, the observed value never raising it
WeightsMedianOnly(m, med2) ==
    [i \in 1..Len(m) |-> [j \in 1..Width(m) |-> med2[j]]]

\* weights = np.maximum(data_mat, median_likelihood.T), doubled  (line 130)
Weights(m, med2) ==
    [i \in 1..Len(m) |-> [j \in 1..Width(m) |-> Max(2 * m[i][j], med2[j])]]

\* od_mat = np.multiply(od_mat, weights)  (line 131)
Multiply(a, b) ==
    [i \in 1..Len(a) |-> [j \in 1..Len(a[i]) |-> a[i][j] * b[i][j]]]

\* od_mat.sum(axis=1)  (line 132)
SumAxis1(m) == [i \in 1..Len(m) |-> SumSeq(m[i])]

\* ------------------------------------------------ pyod's COPOD
\* 1000 * ln(k), rounded
Ln ==
    << 0, 693, 1099, 1386, 1609, 1792, 1946, 2079, 2197, 2303, 2398, 2485,
       2565, 2639, 2708, 2773, 2833, 2890, 2944, 2996, 3045, 3091, 3135, 3178,
       3219, 3258, 3296, 3332, 3367, 3401, 3434, 3466 >>

Sign(x) == IF x > 0 THEN 1 ELSE IF x < 0 THEN 0 - 1 ELSE 0

\* the sign of the column's skewness: that of the third central moment
SkewSign(col) ==
    LET n == Len(col)
        S == SumSeq(col)
        dev(k) == n * col[k] - S
    IN  Sign(SumSeq([k \in 1..n |-> dev(k) * dev(k) * dev(k)]))

\* -log of the left- and right-tail empirical CDF of row i in its column
TailLeft(col, i) ==
    Ln[Len(col)] - Ln[Cardinality({k \in 1..Len(col) : col[k] <= col[i]})]

TailRight(col, i) ==
    Ln[Len(col)] - Ln[Cardinality({k \in 1..Len(col) : col[k] >= col[i]})]

TailSkew(col, i) ==
    CASE SkewSign(col) > 0 -> TailRight(col, i)
      [] SkewSign(col) < 0 -> TailLeft(col, i)
      [] OTHER -> TailLeft(col, i) + TailRight(col, i)

\* clf.O: the per-record, per-dimension contribution matrix
CopodO(m) ==
    [i \in 1..Len(m) |->
        [j \in 1..Width(m) |->
            Max(Max(TailLeft(Column(m, j), i), TailRight(Column(m, j), i)),
                TailSkew(Column(m, j), i))]]

\* np.percentile(scores, 100 * (1 - num/den)), times den (linear interpolation)
ThresholdTimes(scores, num, den) ==
    LET s == SortAsc(scores)
        at == (Len(s) - 1) * (den - num)
        lo == at \div den
        part == at % den
    IN  IF part = 0 THEN den * s[lo + 1]
        ELSE den * s[lo + 1] + part * (s[lo + 2] - s[lo + 1])

\* COPOD(contamination=num/den).fit(m): O, decision_scores_, threshold_, labels_
CopodFit(m, num, den) ==
    LET O == CopodO(m)
        scores == SumAxis1(O)
        thr == ThresholdTimes(scores, num, den)
    IN  [O |-> O,
         decision_scores |-> scores,
         den |-> den,
         threshold_times |-> thr,
         labels |-> [i \in 1..Len(m) |-> IF den * scores[i] > thr THEN 1 ELSE 0]]

\* BaseDetector.__init__ rejects a contamination outside (0, 0.5];
\* check_array in fit rejects an empty matrix
CopodRaises(n, num, den) == n = 0 \/ 2 * num > den

\* ------------------------------------------- musicod.py, album_od 112-163
\* sorted ascending instead of descending
RECURSIVE SortedAscending(_)
SortedAscending(frags) ==
    LET RECURSIVE Ins(_, _)
        Ins(s, x) ==
            IF s = <<>> THEN <<x>>
            ELSE IF x.contribution < Head(s).contribution THEN <<x>> \o s
            ELSE <<Head(s)>> \o Ins(Tail(s), x)
    IN  IF frags = <<>> THEN <<>>
        ELSE Ins(SortedAscending(SubSeq(frags, 1, Len(frags) - 1)),
                 frags[Len(frags)])

\* sorted(..., key=lambda x: x[2], reverse=True): stable, largest first
RECURSIVE SortedDescending(_)
SortedDescending(frags) ==
    LET RECURSIVE Ins(_, _)
        Ins(s, x) ==
            IF s = <<>> THEN <<x>>
            ELSE IF x.contribution > Head(s).contribution THEN <<x>> \o s
            ELSE <<Head(s)>> \o Ins(Tail(s), x)
    IN  IF frags = <<>> THEN <<>>
        ELSE Ins(SortedDescending(SubSeq(frags, 1, Len(frags) - 1)),
                 frags[Len(frags)])

\* the tuple of lines 154-160 for record i, tag j
Fragment(d, i, j, od_mat, med2) ==
    [direction    |-> IF 2 * d.vecs[i].val[j] > med2[j] THEN "more" ELSE "less",
     tag          |-> d.tags[1][j],
     contribution |-> od_mat[i][j],
     observed     |-> d.vecs[i].val[j],
     median2      |-> med2[j]]

\* the Judgement column of record i, before it is formatted and joined
Judgement(d, i, od_mat, med2) ==
    SortedDescending([j \in 1..Len(d.tags[1]) |-> Fragment(d, i, j, od_mat, med2)])

\* a label taken from the reported score against the fit's threshold
LabelsFromReportedScore(fit, od_scores) ==
    [i \in 1..Len(od_scores) |->
        IF fit.den * od_scores[i] > fit.threshold_times THEN 1 ELSE 0]

\* the Fitted column: clf.labels_  (line 148)
FittedLabels(fit, od_scores) == fit.labels

\* `if len(outlier_albums) > 0:`  (line 134)
EvaluateAttempted(albums, outlier_count) == Len(albums) > 0

\* roc_auc_score is undefined for a ground truth of one class: depending on
\* the scikit-learn in use it raises or warns
EvaluateMayRaise(inlier_count, outlier_count) ==
    inlier_count = 0 \/ outlier_count = 0

NoFrame ==
    [pc |-> "idle", n |-> 0, inlier_count |-> 0, evaluated |-> FALSE,
     d |-> init_data(None), O |-> <<>>, od_mat |-> <<>>, median2 |-> <<>>,
     labels |-> <<>>, rows |-> <<>>]

\* album_od(lib_data, lib_dir, inlier_albums, outlier_albums, weighted=...):
\* the locals when the call ends; rows is what was written to the csv
album_od(lib_data, inliers, outliers, weighted, evaluate_raises) ==
    LET d0 == album_subdata(lib_data, inliers)
        inlier_count == Len(d0.vecs)
        d == album_pickdata(d0, lib_data, outliers)
        n == Len(d.vecs)
        outlier_count == n - inlier_count
        label_truth == [i \in 1..n |-> IF i <= inlier_count THEN 0 ELSE 1]
        data_mat == [i \in 1..n |-> d.vecs[i].val]
        num == IF outlier_count > 1 THEN outlier_count ELSE 1
        den == IF outlier_count > 1 THEN n ELSE 10
        frame == [NoFrame EXCEPT !.n = n, !.inlier_count = inlier_count, !.d = d]
    IN  IF CopodRaises(n, num, den) THEN [frame EXCEPT !.pc = "raised"]
        ELSE
        LET fit == CopodFit(data_mat, num, den)
            med2 == MedianAxis0(data_mat)
            od_mat == IF weighted
                      THEN Multiply(fit.O, Weights(data_mat, med2))
                      ELSE fit.O
            od_scores == IF weighted THEN SumAxis1(od_mat) ELSE fit.decision_scores
            evaluated == EvaluateAttempted(outliers, outlier_count)
            fitted == FittedLabels(fit, od_scores)
            computed == [frame EXCEPT !.evaluated = evaluated, !.O = fit.O,
                                      !.od_mat = od_mat, !.median2 = med2,
                                      !.labels = fit.labels]
        IN  IF evaluated /\ EvaluateMayRaise(inlier_count, outlier_count)
               /\ evaluate_raises
            THEN [computed EXCEPT !.pc = "raised"]
            ELSE [computed EXCEPT
                    !.pc = "done",
                    !.rows = [i \in 1..n |->
                                [truth     |-> label_truth[i],
                                 fitted    |-> fitted[i],
                                 od        |-> od_scores[i],
                                 path      |-> d.path[i],
                                 judgement |-> Judgement(d, i, od_mat, med2)]]]

OdInit == run = [w \in BOOLEAN |-> NoFrame]

AlbumOd ==
    \E weighted \in BOOLEAN, evaluate_raises \in BOOLEAN :
        /\ run[weighted].pc = "idle"
        /\ run' = [run EXCEPT ![weighted] =
                      album_od(lib, inlier_albums, outlier_albums,
                               weighted, evaluate_raises)]
        /\ UNCHANGED <<inputVars, selectVars>>
        /\ UNCHANGED <<batchVars, indexVars, weightVars>>

OdIdle == OdInit

OdNext == AlbumOd

\* ------------------------------------ calls of the two selectors
AlbumLists == UNION {[1..len -> AlbumNames] : len \in 0..MaxAlbums}

InputInit ==
    /\ \E missing \in SUBSET MayBeUnindexed : lib = LibraryIndex(missing)
    /\ inlier_albums \in AlbumLists
    /\ outlier_albums \in AlbumLists

SelectInit ==
    /\ sub = init_data(None)
    /\ pick_before = init_data(None)
    /\ spc = "start"

\* data = album_subdata(lib_data, lib_dir, inlier_albums)
BuildSubset ==
    /\ spc = "start"
    /\ sub' = album_subdata(lib, inlier_albums)
    /\ spc' = "built"
    /\ UNCHANGED <<inputVars, pick_before>>
    /\ UNCHANGED <<batchVars, indexVars, run, weightVars>>

\* album_pickdata(data, lib_data, lib_dir, outlier_albums)
PickInto ==
    /\ spc = "built"
    /\ pick_before' = sub
    /\ sub' = album_pickdata(sub, lib, outlier_albums)
    /\ spc' = "picked"
    /\ UNCHANGED inputVars
    /\ UNCHANGED <<batchVars, indexVars, run, weightVars>>

InputIdle ==
    lib = init_data(None) /\ inlier_albums = <<>> /\ outlier_albums = <<>>

SelectIdle ==
    sub = init_data(None) /\ pick_before = init_data(None) /\ spc = "idle"

SelectNext == BuildSubset \/ PickInto

\* ------------------------------- the reweighting step, lines 126-132
\* median, contributions, weights and weighted contributions of a matrix
Reweighted(m) ==
    LET med2 == MedianAxis0(m)
        O == CopodO(m)
        W == Weights(m, med2)
    IN  [median2 |-> med2, O |-> O, weights |-> W, contribution |-> Multiply(O, W)]

WeightInit ==
    /\ \E n \in 1..MaxRecords : wV \in [1..n -> [1..1 -> 1..MaxProb]]
    /\ wPrev = None
    /\ wRes = None
    /\ wpc = "fit"

\* lines 126-131 with weighted=True
Reweight ==
    /\ wpc = "fit"
    /\ wRes' = Some(Reweighted(wV))
    /\ wpc' = "weighted"
    /\ UNCHANGED <<wV, wPrev>>
    /\ UNCHANGED <<batchVars, indexVars, inputVars, selectVars, run>>

\* the same library with one track's value for the tag raised
RaiseValue ==
    /\ wpc = "weighted" /\ IsNone(wPrev)
    /\ \E i \in 1..Len(wV), v \in 1..MaxProb :
          /\ v > wV[i][1]
          /\ wPrev' = Some([V |-> wV, res |-> wRes[1], row |-> i])
          /\ wV' = [wV EXCEPT ![i][1] = v]
    /\ wRes' = None
    /\ wpc' = "fit"
    /\ UNCHANGED <<batchVars, indexVars, inputVars, selectVars, run>>

WeightIdle == wV = <<>> /\ wPrev = None /\ wRes = None /\ wpc = "idle"

WeightNext == Reweight \/ RaiseValue

\* ----------------------------------------------------- specifications
BatchNext == BatchStep \/ BatchReturn

IndexNext == IndexSkip \/ IndexAdd \/ IndexRaise \/ IndexReturn

InitBatch ==
    BatchInit /\ IndexIdle /\ InputIdle /\ SelectIdle /\ OdIdle /\ WeightIdle

SpecBatch == InitBatch /\ [][BatchNext]_vars

InitIndex ==
    BatchIdle /\ IndexInit /\ InputIdle /\ SelectIdle /\ OdIdle /\ WeightIdle

SpecIndex == InitIndex /\ [][IndexNext]_vars

InitSelect ==
    BatchIdle /\ IndexIdle /\ InputInit /\ SelectInit /\ OdIdle /\ WeightIdle

SpecSelect == InitSelect /\ [][SelectNext]_vars

InitOd ==
    BatchIdle /\ IndexIdle /\ InputInit /\ SelectIdle /\ OdInit /\ WeightIdle

SpecOd == InitOd /\ [][OdNext]_vars

InitWeight ==
    BatchIdle /\ IndexIdle /\ InputIdle /\ SelectIdle /\ OdIdle /\ WeightInit

SpecWeight == InitWeight /\ [][WeightNext]_vars

Taggable(k) == MusicExtMatch(walk[k].name) /\ ~TagsVecRaises(walk[k])

\* C8: a track shorter than one frame window is skipped and the scan goes
\* on: the build never aborts, and the finished index holds every file that
\* could be tagged, before and after the short one.
C8_ShortTrackSkipped ==
    /\ ipc # "raised"
    /\ ipc = "done" =>
          data.path = SelectSeq([k \in 1..Len(walk) |-> k], Taggable)

RECURSIVE DirVisits(_)
DirVisits(album_names) ==
    IF album_names = <<>> THEN <<>>
    ELSE Library[Head(album_names)] \o DirVisits(Tail(album_names))

PathsOfDir(dir) == [k \in 1..Len(dir.files) |-> JoinPath(dir.subpath, dir.files[k])]

RECURSIVE PathsOfDirs(_)
PathsOfDirs(dirs) ==
    IF dirs = <<>> THEN <<>> ELSE PathsOfDir(Head(dirs)) \o PathsOfDirs(Tail(dirs))

IsAudio(file_path) == MusicExtMatch(file_path[2])
Indexed(file_path) == \E k \in 1..Len(lib.path) : lib.path[k] = file_path
Selectable(file_path) == IsAudio(file_path) /\ Indexed(file_path)

IndexVector(file_path) ==
    lib.vecs[CHOOSE k \in 1..Len(lib.path) : lib.path[k] = file_path]

LibraryObjects == {lib.vecs[k].id : k \in 1..Len(lib.vecs)}

\* entries k of d, from position `from` on, are fresh copies of the index's
\* vectors for their paths
CopiesOfIndex(d, from) ==
    /\ Len(d.vecs) = Len(d.path)
    /\ \A k \in from..Len(d.path) :
          /\ d.vecs[k].val = IndexVector(d.path[k]).val
          /\ d.vecs[k].id \notin LibraryObjects
          /\ \A m \in 1..Len(d.vecs) : m # k => d.vecs[m].id # d.vecs[k].id

\* C2: album_subdata returns a fresh subset with the index's vocabulary whose
\* entries are, in walk order, exactly the files under the listed albums that
\* match the extension filter and are in the index, each with a copy of the
\* index's vector; unindexed files add nothing; the index stays as built.
C2_SubsetIsFilteredWalk ==
    spc = "built" =>
        /\ sub.tags = lib.tags
        /\ sub.path = SelectSeq(PathsOfDirs(DirVisits(inlier_albums)), Selectable)
        /\ CopiesOfIndex(sub, 1)
        /\ lib \in {LibraryIndex(m) : m \in SUBSET MayBeUnindexed}

C2_Witness ==
    /\ spc = "built"
    /\ Len(sub.path) >= 3
    /\ \E k \in 1..Len(PathsOfDirs(DirVisits(inlier_albums))) :
          LET f == PathsOfDirs(DirVisits(inlier_albums))[k]
          IN  IsAudio(f) /\ ~Indexed(f)
    /\ \E k \in 1..Len(PathsOfDirs(DirVisits(inlier_albums))) :
          ~IsAudio(PathsOfDirs(DirVisits(inlier_albums))[k])

\* the first selectable file of a directory, if it has one
FirstPick(dir) ==
    LET hits == {k \in 1..Len(dir.files) : Selectable(PathsOfDir(dir)[k])}
    IN  IF hits = {} THEN <<>>
        ELSE << PathsOfDir(dir)[CHOOSE k \in hits : \A m \in hits : k <= m] >>

RECURSIVE FirstPicks(_)
FirstPicks(dirs) ==
    IF dirs = <<>> THEN <<>> ELSE FirstPick(Head(dirs)) \o FirstPicks(Tail(dirs))

\* C3: album_pickdata appends at most one entry per directory visited, the
\* first file of the directory that matches the filter and is in the index,
\* then goes on with the next directory; what the accumulator held keeps its
\* place and value.
C3_OnePickPerDirectory ==
    spc = "picked" =>
        LET before == Len(pick_before.path)
            added == SubSeq(sub.path, before + 1, Len(sub.path))
        IN  /\ SubSeq(sub.path, 1, before) = pick_before.path
            /\ SubSeq(sub.vecs, 1, before) = pick_before.vecs
            /\ sub.tags = pick_before.tags
            /\ added = FirstPicks(DirVisits(outlier_albums))
            /\ Len(added) <= Len(DirVisits(outlier_albums))
            /\ CopiesOfIndex(sub, before + 1)

C3_Witness ==
    /\ spc = "picked"
    /\ Len(pick_before.path) >= 1
    /\ Len(sub.path) > Len(pick_before.path)
    /\ \E k \in 1..Len(DirVisits(outlier_albums)) :
          LET dir == DirVisits(outlier_albums)[k]
          IN  Cardinality({f \in 1..Len(dir.files) :
                              Selectable(PathsOfDir(dir)[f])}) >= 2

\* ---------------------------------------------------------------- album_od
Finished(w) == run[w].pc = "done"
OutlierCount(w) == run[w].n - run[w].inlier_count

\* C4: the Fitted label of every record is the same with weighted=True as
\* with weighted=False: it is the fit's label on the unweighted score.
C4_LabelIgnoresWeighting ==
    /\ \A w \in BOOLEAN : Finished(w) =>
          \A i \in 1..run[w].n : run[w].rows[i].fitted = run[w].labels[i]
    /\ (Finished(TRUE) /\ Finished(FALSE)) =>
          /\ Len(run[TRUE].rows) = Len(run[FALSE].rows)
          /\ \A i \in 1..Len(run[TRUE].rows) :
                /\ run[TRUE].rows[i].path = run[FALSE].rows[i].path
                /\ run[TRUE].rows[i].fitted = run[FALSE].rows[i].fitted

C4_Witness ==
    /\ Finished(TRUE) /\ Finished(FALSE)
    /\ \E i \in 1..Len(run[TRUE].rows) :
          /\ run[TRUE].rows[i].fitted = 1
          /\ run[TRUE].rows[i].od # run[FALSE].rows[i].od
    /\ \E i \in 1..Len(run[TRUE].rows) : run[TRUE].rows[i].fitted = 0

\* the contribution the report ranks by, for record i and tag j
RankedBy(w, i, j) ==
    IF w THEN run[w].O[i][j] * Max(2 * run[w].d.vecs[i].val[j], run[w].median2[j])
    ELSE run[w].O[i][j]

\* C6: every record's explanation has one fragment per tag of the
\* vocabulary, "more" when the observed value is strictly above the column
\* median and "less" otherwise, in non-increasing order of contribution.
C6_ExplanationRanked ==
    \A w \in BOOLEAN : Finished(w) =>
        \A i \in 1..run[w].n :
            LET tags == run[w].d.tags[1]
                J == run[w].rows[i].judgement
                column(j) == [r \in 1..run[w].n |-> run[w].d.vecs[r].val[j]]
            IN  /\ Len(J) = Len(tags)
                /\ \A j \in 1..Len(tags) :
                      \E k \in 1..Len(J) :
                          /\ J[k].tag = tags[j]
                          /\ J[k].observed = run[w].d.vecs[i].val[j]
                          /\ J[k].median2 = Median2(column(j))
                          /\ J[k].contribution = RankedBy(w, i, j)
                          /\ J[k].direction =
                                IF 2 * J[k].observed > J[k].median2
                                THEN "more" ELSE "less"
                /\ \A k \in 1..(Len(J) - 1) :
                      J[k].contribution >= J[k + 1].contribution

C6_Witness ==
    \E w \in BOOLEAN :
        /\ Finished(w)
        /\ \E i \in 1..run[w].n :
              LET J == run[w].rows[i].judgement
              IN  /\ J[1].tag = AllTags[2]
                  /\ J[1].contribution > J[2].contribution
                  /\ J[1].direction = "more" /\ J[2].direction = "less"
        /\ \E i \in 1..run[w].n :
              LET J == run[w].rows[i].judgement
              IN  \E k \in 1..Len(J) : 2 * J[k].observed = J[k].median2

\* C7: the evaluation summary is attempted only when outlier-candidate rows
\* were appended after the inlier rows; with none the report is still written.
C7_EvaluationOnlyWithOutlierRows ==
    \A w \in BOOLEAN :
        /\ run[w].evaluated => OutlierCount(w) > 0
        /\ (run[w].pc # "idle" /\ run[w].n >= 2 /\ OutlierCount(w) = 0) =>
              Finished(w)

\* C10: with fewer than 2 records in the assembled matrix album_od fails
\* before the fit and writes no score.
C10_FewerThanTwoRecordsFails ==
    \A w \in BOOLEAN :
        (run[w].pc # "idle" /\ run[w].n < 2) =>
            /\ run[w].pc = "raised"
            /\ run[w].O = <<>>
            /\ run[w].rows = <<>>

\* ------------------------------------------------------------ reweighting
Raised == wpc = "weighted" /\ ~IsNone(wPrev)
RaisedRow == wPrev[1].row
Before == wPrev[1].res
After == wRes[1]
WasAtOrAboveMedian == 2 * wPrev[1].V[RaisedRow][1] >= Before.median2[1]

\* C5 as stated, read in its most favourable way (a matrix of at least two
\* records, and a value that is still below the median once raised): raising
\* a value at or above its column median strictly increases its weighted
\* contribution, and raising a value below the median never changes its
\* weight.
C5_AsStated ==
    (Raised /\ Len(wV) >= 2) =>
        /\ WasAtOrAboveMedian =>
              After.contribution[RaisedRow][1] > Before.contribution[RaisedRow][1]
        /\ (~WasAtOrAboveMedian /\ 2 * wV[RaisedRow][1] < After.median2[1]) =>
              After.weights[RaisedRow][1] = Before.weights[RaisedRow][1]

\* C5 amended: raising a value at or above its column median strictly
\* increases its weight, and its weighted contribution too whenever the refit
\* leaves O[i,j] positive and no smaller; raising a value below the median
\* leaves the weight unchanged when the median is unchanged and the raised
\* value does not exceed it.
C5_WeightMonotone ==
    Raised =>
        /\ WasAtOrAboveMedian =>
              /\ After.weights[RaisedRow][1] > Before.weights[RaisedRow][1]
              /\ (After.O[RaisedRow][1] >= Before.O[RaisedRow][1]
                    /\ After.O[RaisedRow][1] > 0) =>
                    After.contribution[RaisedRow][1]
                        > Before.contribution[RaisedRow][1]
        /\ (~WasAtOrAboveMedian
              /\ After.median2 = Before.median2
              /\ 2 * wV[RaisedRow][1] <= After.median2[1]) =>
              After.weights[RaisedRow][1] = Before.weights[RaisedRow][1]

C5_Witness ==
    /\ Raised /\ Len(wV) >= 3
    /\ WasAtOrAboveMedian
    /\ After.O[RaisedRow][1] > 0
    /\ After.O[RaisedRow][1] >= Before.O[RaisedRow][1]
    /\ After.median2 # Before.median2
====
